---- MODULE Spec2Model ----
(***************************************************************************)
(* A model of cyverse/go-daemonizer (src/daemonizer.go): a process that    *)
(* re-executes its own binary as a child, hands the child its parameters   *)
(* over one pipe and waits for the child's status record on another.       *)
(*                                                                         *)
(* Two OS processes are modelled, "parent" (the process the user started)  *)
(* and "child" (the process os.StartProcess creates).  Both run the same   *)
(* program: NewDaemonizer, then, by role, Daemonize or GetParams.          *)
(***************************************************************************)
EXTENDS Integers, Sequences, FiniteSets, TLC

\* ------------------------------------------------------------------ bounds

\* Longest argument vector the original process is started with.
MaxArgs == 2
\* Capacity of a kernel pipe buffer, counted in JSON tokens.
PipeCap == 3

\* --------------------------------------------------------------- constants

DaemonProcessArgumentName == "daemon_process"
DaemonProcessArgument == "--daemon_process"

\* A Go error: nil, or a value whose Error() is msg (a string, as below a
\* sequence of units).
NoErr == [nil |-> TRUE, msg |-> <<>>]
NewError(msg) == [nil |-> FALSE, msg |-> msg]

ErrNotParentProcess == NewError(<<"not parent process">>)
ErrNotDaemonProcess == NewError(<<"not daemon process">>)
ErrRunDaemonFailed == NewError(<<"failed to run daemon process">>)
ErrParamNotSerializable == NewError(<<"param is not JSON serializable">>)
ErrParamSendFailed == NewError(<<"failed to send param to daemon process">>)

\* Errors of the Go runtime and of encoding/json that the code passes on.
ErrEOF == NewError(<<"EOF">>)
ErrUnexpectedEOF == NewError(<<"unexpected EOF">>)
ErrSyntax == NewError(<<"invalid character">>)
ErrUnmarshalType == NewError(<<"json: cannot unmarshal">>)
ErrBadFd == NewError(<<"bad file descriptor">>)
ErrBrokenPipe == NewError(<<"broken pipe">>)
ErrReadFailed == NewError(<<"input/output error">>)
ErrPipeFailed == NewError(<<"too many open files">>)
ErrStartFailed == NewError(<<"fork/exec failed">>)

\* ------------------------------------------------------------- Go values
\* A dynamically typed Go value (interface{}): k is its dynamic type.
\* A string is a sequence of units; the unit "\\xff" is a byte that is not
\* valid UTF-8 and "\\ufffd" is the Unicode replacement rune.
\* A map is the sequence of its entries in key order, without duplicates.
\* Every value is a record of the same shape (b, n, s, c hold a bool, a
\* number, a string, the elements or entries), so that any two compare.

GoValue(k, b, n, s, c) == [k |-> k, b |-> b, n |-> n, s |-> s, key |-> <<>>, c |-> c]
GoNil == GoValue("nil", FALSE, 0, <<>>, <<>>)
GoBool(b) == GoValue("bool", b, 0, <<>>, <<>>)
GoInt(n) == GoValue("int", FALSE, n, <<>>, <<>>)
GoFloat(n) == GoValue("float", FALSE, n, <<>>, <<>>)
GoStr(s) == GoValue("str", FALSE, 0, s, <<>>)
GoList(c) == GoValue("list", FALSE, 0, <<>>, c)
GoMap(c) == GoValue("map", FALSE, 0, <<>>, c)
GoChan == GoValue("chan", FALSE, 0, <<>>, <<>>)
\* A map entry is its value, tagged with its key.
Entry(key, val) == [val EXCEPT !.key = key]
EntryVal(e) == [e EXCEPT !.key = <<>>]

InvalidByte == "\\xff"
ReplacementRune == "\\ufffd"

KeyHost == <<"host">>
KeyPort == <<"port">>
KeyParams == <<"params">>
KeyStatus == <<"status">>
KeyMessage == <<"message">>

\* The byte order of the keys the model uses (a map holds its entries in
\* this order).
KeyRank(key) ==
    CASE key = KeyHost -> 1
      [] key = KeyMessage -> 2
      [] key = KeyParams -> 3
      [] key = KeyPort -> 4
      [] key = KeyStatus -> 5
      [] OTHER -> 6

\* ----------------------------------------------------------- json.Marshal

\* The wire format, as a sequence of JSON tokens.
Tok(t) == [t |-> t, n |-> 0, s |-> <<>>]
NumTok(n) == [t |-> "num", n |-> n, s |-> <<>>]
StrTok(s) == [t |-> "str", n |-> 0, s |-> s]

\* encoding/json coerces a string to valid UTF-8: each invalid byte is
\* written as the replacement rune.
ToValidUTF8(s) == [i \in 1..Len(s) |-> IF s[i] = InvalidByte THEN ReplacementRune ELSE s[i]]

RECURSIVE Encodable(_)
Encodable(v) ==
    CASE v.k = "chan" -> FALSE
      [] v.k = "list" -> \A i \in 1..Len(v.c) : Encodable(v.c[i])
      [] v.k = "map" -> \A i \in 1..Len(v.c) : Encodable(v.c[i])
      [] OTHER -> TRUE

RECURSIVE EncodeValue(_)
RECURSIVE EncodeElems(_, _)
RECURSIVE EncodeMembers(_, _)

EncodeElems(s, i) ==
    IF i > Len(s) THEN <<>>
    ELSE (IF i > 1 THEN <<Tok(",")>> ELSE <<>>)
         \o EncodeValue(s[i]) \o EncodeElems(s, i + 1)

EncodeMembers(s, i) ==
    IF i > Len(s) THEN <<>>
    ELSE (IF i > 1 THEN <<Tok(",")>> ELSE <<>>)
         \o <<StrTok(ToValidUTF8(s[i].key)), Tok(":")>>
         \o EncodeValue(EntryVal(s[i])) \o EncodeMembers(s, i + 1)

EncodeValue(v) ==
    CASE v.k = "nil" -> <<Tok("null")>>
      [] v.k = "bool" -> <<Tok(IF v.b THEN "true" ELSE "false")>>
      [] v.k = "int" -> <<NumTok(v.n)>>
      [] v.k = "float" -> <<NumTok(v.n)>>
      [] v.k = "str" -> <<StrTok(ToValidUTF8(v.s))>>
      [] v.k = "list" -> <<Tok("[")>> \o EncodeElems(v.c, 1) \o <<Tok("]")>>
      [] v.k = "map" -> <<Tok("{")>> \o EncodeMembers(v.c, 1) \o <<Tok("}")>>
      [] OTHER -> <<>>

\* json.Marshal(&daemonProcessInitRequest{Params: params}): the envelope
\* with the single field "params".
MarshalRequest(params) ==
    <<Tok("{"), StrTok(KeyParams), Tok(":")>> \o EncodeValue(params) \o <<Tok("}")>>

\* ------------------------------------------------------ json.Decoder.Decode

\* Below, CHOOSE r \in {F(e) : e \in {x}} : TRUE is F(x), with x evaluated
\* once.

ParseOk(v, n) == [st |-> "ok", v |-> v, n |-> n]
ParseMore == [st |-> "more", v |-> GoNil, n |-> 0]
ParseBad == [st |-> "bad", v |-> GoNil, n |-> 0]

\* m with key set to val: a later duplicate key replaces the earlier one.
RECURSIVE MapInsert(_, _, _)
MapInsert(m, key, val) ==
    IF m = <<>> THEN <<Entry(key, val)>>
    ELSE IF Head(m).key = key THEN <<Entry(key, val)>> \o Tail(m)
    ELSE IF KeyRank(key) < KeyRank(Head(m).key) THEN <<Entry(key, val)>> \o m
    ELSE <<Head(m)>> \o MapInsert(Tail(m), key, val)

RECURSIVE ParseValue(_, _)
RECURSIVE ParseElems(_, _, _)
RECURSIVE ParseMembers(_, _, _)

\* After '[' or ',': one element, then ',' or ']'.
ParseElems(toks, i, acc) ==
    LET After(e) ==
            IF e.st # "ok" THEN e
            ELSE IF e.n > Len(toks) THEN ParseMore
            ELSE IF toks[e.n].t = "," THEN ParseElems(toks, e.n + 1, Append(acc, e.v))
            ELSE IF toks[e.n].t = "]" THEN ParseOk(GoList(Append(acc, e.v)), e.n + 1)
            ELSE ParseBad
    IN CHOOSE r \in {After(e) : e \in {ParseValue(toks, i)}} : TRUE

\* After '{' or ',': one "key": value member, then ',' or '}'.
ParseMembers(toks, i, acc) ==
    IF i > Len(toks) THEN ParseMore
    ELSE IF toks[i].t # "str" THEN ParseBad
    ELSE IF i + 1 > Len(toks) THEN ParseMore
    ELSE IF toks[i + 1].t # ":" THEN ParseBad
    ELSE LET After(e) ==
                 IF e.st # "ok" THEN e
                 ELSE IF e.n > Len(toks) THEN ParseMore
                 ELSE IF toks[e.n].t = ","
                      THEN ParseMembers(toks, e.n + 1, MapInsert(acc, toks[i].s, e.v))
                 ELSE IF toks[e.n].t = "}"
                      THEN ParseOk(GoMap(MapInsert(acc, toks[i].s, e.v)), e.n + 1)
                 ELSE ParseBad
         IN CHOOSE r \in {After(e) : e \in {ParseValue(toks, i + 2)}} : TRUE

\* A JSON number decoded into interface{} is a float64.
DecodeNumber(n) == GoFloat(n)

\* One JSON value starting at toks[i], decoded into interface{}.
ParseValue(toks, i) ==
    IF i > Len(toks) THEN ParseMore
    ELSE LET t == toks[i].t IN
         CASE t = "null" -> ParseOk(GoNil, i + 1)
           [] t = "true" -> ParseOk(GoBool(TRUE), i + 1)
           [] t = "false" -> ParseOk(GoBool(FALSE), i + 1)
           [] t = "num" -> ParseOk(DecodeNumber(toks[i].n), i + 1)
           [] t = "str" -> ParseOk(GoStr(toks[i].s), i + 1)
           [] t = "[" ->
                IF i + 1 > Len(toks) THEN ParseMore
                ELSE IF toks[i + 1].t = "]" THEN ParseOk(GoList(<<>>), i + 2)
                ELSE ParseElems(toks, i + 1, <<>>)
           [] t = "{" ->
                IF i + 1 > Len(toks) THEN ParseMore
                ELSE IF toks[i + 1].t = "}" THEN ParseOk(GoMap(<<>>), i + 2)
                ELSE ParseMembers(toks, i + 1, <<>>)
           [] OTHER -> ParseBad

\* The value of key in map m, or absent.
MapHas(m, key) == \E i \in 1..Len(m) : m[i].key = key
MapGet(m, key) == EntryVal(m[CHOOSE i \in 1..Len(m) : m[i].key = key])

\* decoder.Decode(&msg) for msg of type daemonProcessInitRequest, on the
\* bytes read so far: "more" while the value is incomplete, else the error
\* and the decoded Params field (a nil map when absent or null).
DecodeRequest(toks) ==
    LET Unmarshal(e) ==
            IF e.st = "more" THEN [st |-> "more", err |-> NoErr, params |-> GoNil]
            ELSE IF e.st = "bad" THEN [st |-> "done", err |-> ErrSyntax, params |-> GoNil]
            ELSE IF e.v.k # "map" THEN [st |-> "done", err |-> ErrUnmarshalType, params |-> GoNil]
            ELSE IF ~MapHas(e.v.c, KeyParams) THEN [st |-> "done", err |-> NoErr, params |-> GoNil]
            ELSE LET p == MapGet(e.v.c, KeyParams) IN
                 IF p.k \in {"map", "nil"} THEN [st |-> "done", err |-> NoErr, params |-> p]
                 ELSE [st |-> "done", err |-> ErrUnmarshalType, params |-> GoNil]
    IN CHOOSE r \in {Unmarshal(e) : e \in {ParseValue(toks, 1)}} : TRUE

\* json.NewEncoder(w).Encode(&daemonProcessResponse{status, message}): the
\* struct's fields in declaration order.
EncodeResponse(status, message) ==
    <<Tok("{"), StrTok(KeyStatus), Tok(":"), StrTok(ToValidUTF8(status)), Tok(","),
      StrTok(KeyMessage), Tok(":"), StrTok(ToValidUTF8(message)), Tok("}")>>

Response(status, message) == [status |-> status, message |-> message]

\* The string field of a decoded object: the zero value when the key is
\* absent or null.
StringField(m, key) ==
    IF MapHas(m, key) /\ MapGet(m, key).k = "str" THEN MapGet(m, key).s ELSE <<>>
FieldIsString(m, key) ==
    MapHas(m, key) => MapGet(m, key).k \in {"str", "nil"}

\* decoder.Decode(&msg) for msg of type daemonProcessResponse.
DecodeResponse(toks) ==
    LET Unmarshal(e) ==
            IF e.st = "more" THEN [st |-> "more", err |-> NoErr, msg |-> Response(<<>>, <<>>)]
            ELSE IF e.st = "bad" THEN [st |-> "done", err |-> ErrSyntax, msg |-> Response(<<>>, <<>>)]
            ELSE IF \/ e.v.k # "map"
                    \/ ~FieldIsString(e.v.c, KeyStatus)
                    \/ ~FieldIsString(e.v.c, KeyMessage)
                 THEN [st |-> "done", err |-> ErrUnmarshalType, msg |-> Response(<<>>, <<>>)]
            ELSE [st |-> "done", err |-> NoErr,
                  msg |-> Response(StringField(e.v.c, KeyStatus), StringField(e.v.c, KeyMessage))]
    IN CHOOSE r \in {Unmarshal(e) : e \in {ParseValue(toks, 1)}} : TRUE

\* ------------------------------------------------------------------ state

Procs == {"parent", "child"}
\* The four ends of the two pipes runDaemonProcess creates.
Ends == {"paramR", "paramW", "outputR", "outputW"}

VARIABLES
    argv,        \* argv[p]: the argument vector process p was started with
    osArgs,      \* osArgs[p]: the process-global os.Args of p
    pc,          \* pc[p]: where p's main goroutine is
    d,           \* d[p]: the Daemonizer that p's NewDaemonizer builds
    d2,          \* d2[p]: a second Daemonizer built later in the same process
    fds,         \* fds[p]: the pipe ends p holds open (its descriptor table)
    paramPipe,   \* tokens in the parameter pipe's kernel buffer
    outputPipe,  \* records (one write each) in the status pipe's kernel buffer
    wbuf,        \* paramBytes the parent's Write has not yet written
    rbuf,        \* rbuf[p]: what p's json.Decoder has read so far
    perr,        \* perr[p]: the error a call in progress is about to return
    via,         \* via[p]: who called initDaemonProcess
    initErr,     \* initErr[p]: what initDaemonProcess returned
    ctorErr,     \* ctorErr[p]: what NewDaemonizer returned
    ret,         \* ret[p]: what Daemonize returned
    lpc,         \* where the goroutine of readOutputFromDaemonProcess is
    lmsg,        \* the message that goroutine is sending on responseChan
    written,     \* written[p]: the status records p has written to the pipe
    closes,      \* closes[p][e]: the Close calls p has made on its handle of end e
    option,      \* the DaemonizeOption the application passes to Daemonize
    proc         \* what the kernel started the child with (files, dir, env, session)

vars == <<argv, osArgs, pc, d, d2, fds, paramPipe, outputPipe, wbuf, rbuf,
          perr, via, initErr, ctorErr, ret, lpc, lmsg, written, closes, option, proc>>

\* &Daemonizer{}: the zero value.  A pipe field is "nil", or the state of
\* the *os.File it points to ("open", "closed").
ZeroDaemonizer ==
    [daemon |-> FALSE, commandArguments |-> <<>>, params |-> GoNil,
     daemonProc |-> FALSE, paramReadPipe |-> "nil", paramWritePipe |-> "nil",
     outputReadPipe |-> "nil", outputWritePipe |-> "nil"]

\* No second Daemonizer yet.
NoSecond == [made |-> FALSE, daemon |-> FALSE, commandArguments |-> <<>>, err |-> NoErr]

\* ----------------------------------------------------------------- inputs

ArgTokens == {"prog", "-v", DaemonProcessArgument}
\* Every argument vector of 1..MaxArgs tokens.
ArgVectors == UNION {[1..n -> ArgTokens] : n \in 1..MaxArgs}

CfgReadme == GoMap(<<Entry(KeyHost, GoStr(<<"localhost">>)), Entry(KeyPort, GoInt(8080))>>)
CfgNested ==
    GoMap(<<Entry(KeyHost, GoList(<<GoFloat(1), GoBool(TRUE), GoNil>>)),
            Entry(KeyPort, GoMap(<<Entry(KeyPort, GoInt(2))>>))>>)
CfgInvalidUTF8 == GoMap(<<Entry(KeyHost, GoStr(<<"a", InvalidByte>>))>>)
CfgChan == GoMap(<<Entry(KeyHost, GoChan)>>)
\* The params the application passes to Daemonize: a nil map, an empty
\* map, the README's map, nested values, a string that is not valid UTF-8,
\* and a value json.Marshal rejects.
Configs == {GoNil, GoMap(<<>>), CfgReadme, CfgNested, CfgInvalidUTF8, CfgChan}

\* A DaemonizeOption: Dir is "" or a directory, Stdin, Stdout and Stderr are
\* nil or a file, Env is nil or a list of variables.
Options ==
    [Dir : {"", "option.Dir"}, Stdin : {"nil", "option.Stdin"},
     Stdout : {"nil", "option.Stdout"}, Stderr : {"nil", "option.Stderr"},
     Env : {"nil", "option.Env"}]
\* DaemonizeOption{}: the zero value.
EmptyOption == [Dir |-> "", Stdin |-> "nil", Stdout |-> "nil", Stderr |-> "nil", Env |-> "nil"]
\* The option after UseNullIO().
NullIOOption ==
    [EmptyOption EXCEPT !.Stdin = "option.Stdin", !.Stdout = "option.Stdout",
                        !.Stderr = "option.Stderr"]
\* No process has been started.
NoProcess == [files |-> <<>>, dir |-> "", env |-> "", session |-> ""]

\* The state after the program is started with one of vectors and its
\* application builds one of opts.
InitFrom(vectors, opts) ==
    /\ argv \in [Procs -> vectors \cup {<<>>}]
    /\ argv["parent"] # <<>>
    /\ argv["child"] = <<>>
    /\ osArgs = argv
    /\ pc = [p \in Procs |-> IF p = "parent" THEN "start" ELSE "absent"]
    /\ d = [p \in Procs |-> ZeroDaemonizer]
    /\ d2 = [p \in Procs |-> NoSecond]
    /\ fds = [p \in Procs |-> {}]
    /\ paramPipe = <<>>
    /\ outputPipe = <<>>
    /\ wbuf = <<>>
    /\ rbuf = [p \in Procs |-> <<>>]
    /\ perr = [p \in Procs |-> NoErr]
    /\ via = [p \in Procs |-> "none"]
    /\ initErr = [p \in Procs |-> NoErr]
    /\ ctorErr = [p \in Procs |-> NoErr]
    /\ ret = [p \in Procs |-> NoErr]
    /\ lpc = "off"
    /\ lmsg = Response(<<>>, <<>>)
    /\ written = [p \in Procs |-> <<>>]
    /\ closes = [p \in Procs |-> [e \in Ends |-> 0]]
    /\ option \in opts
    /\ proc = NoProcess

Init == InitFrom(ArgVectors, {EmptyOption, NullIOOption})

\* ------------------------------------------------------- file descriptors

Holders(end) == {q \in Procs : end \in fds[q]}

\* f.Close() on p's *os.File for end: the descriptor leaves p's table.
CloseFd(table, p, end) == [table EXCEPT ![p] = @ \ {end}]

\* f.Close() on p's *os.File for end, counted.
CloseCall(count, p, end) == [count EXCEPT ![p][end] = @ + 1]

\* The field of Daemonizer that holds the *os.File of end.
Handle(end) ==
    CASE end = "paramR" -> "paramReadPipe"
      [] end = "paramW" -> "paramWritePipe"
      [] end = "outputR" -> "outputReadPipe"
      [] OTHER -> "outputWritePipe"

\* ---------------------------------------------------- readCommandArguments

\* The loop over os.Args: st.daemon and st.clean after args[i..].
RECURSIVE ScanArguments(_, _, _)
ScanArguments(args, i, st) ==
    IF i > Len(args) THEN st
    ELSE IF args[i] = DaemonProcessArgument
         THEN ScanArguments(args, i + 1, [st EXCEPT !.daemon = TRUE])
         ELSE ScanArguments(args, i + 1, [st EXCEPT !.clean = Append(@, args[i])])

\* A detection that looks for the marker only where runDaemonProcess puts it.
readCommandArgumentsAtOne(args) ==
    LET found == Len(args) >= 2 /\ args[2] = DaemonProcessArgument
        clean == IF found THEN <<args[1]>> \o SubSeq(args, 3, Len(args)) ELSE args
    IN [daemon |-> found, commandArguments |-> clean, osArgs |-> clean]

\* d.daemon, d.commandArguments and os.Args after readCommandArguments.
readCommandArguments(args) ==
    LET st == ScanArguments(args, 1, [daemon |-> FALSE, clean |-> <<>>]) IN
    [daemon |-> st.daemon,
     commandArguments |-> st.clean,
     osArgs |-> IF st.daemon THEN st.clean ELSE args]

\* ------------------------------------------------------ initDaemonProcess

\* initDaemonProcess without its guard.
initGuardMissing(dd) == NoErr

\* The guard of initDaemonProcess: the error it returns at once.
initGuard(dd) == IF ~dd.daemon THEN ErrNotDaemonProcess ELSE NoErr

\* os.NewFile(3, ...) and os.NewFile(4, ...).
WirePipes(dd) == [dd EXCEPT !.paramReadPipe = "open", !.outputWritePipe = "open"]

\* initDaemonProcess returns err to caller who.
InitReturns(p, who, err) ==
    /\ initErr' = [initErr EXCEPT ![p] = err]
    /\ IF who = "NewDaemonizer"
       THEN /\ ctorErr' = [ctorErr EXCEPT ![p] = err]
            /\ pc' = [pc EXCEPT ![p] = IF err.nil THEN "ready" ELSE "failed"]
       ELSE /\ ctorErr' = ctorErr
            /\ pc' = [pc EXCEPT ![p] = "ready"]

\* initDaemonProcess on Daemonizer dd of process p up to its first read.
initDaemonProcess(p, who, dd) ==
    IF ~initGuard(dd).nil
    THEN /\ InitReturns(p, who, initGuard(dd))
         /\ d' = [d EXCEPT ![p] = dd]
         /\ UNCHANGED <<via, rbuf>>
    ELSE /\ d' = [d EXCEPT ![p] = WirePipes(dd)]
         /\ via' = [via EXCEPT ![p] = who]
         /\ rbuf' = [rbuf EXCEPT ![p] = <<>>]
         /\ pc' = [pc EXCEPT ![p] = "readParams"]
         /\ UNCHANGED <<initErr, ctorErr>>

\* NewDaemonizer runs initDaemonProcess for this Daemonizer.
NeedsInit(dd) == dd.daemon

\* NewDaemonizer up to the first read of initDaemonProcess.
NewDaemonizer(p) ==
    /\ pc[p] = "start"
    /\ LET r == readCommandArguments(osArgs[p])
           dd == [ZeroDaemonizer EXCEPT !.daemon = r.daemon,
                                        !.commandArguments = r.commandArguments]
       IN /\ osArgs' = [osArgs EXCEPT ![p] = r.osArgs]
          /\ IF NeedsInit(dd)
             THEN initDaemonProcess(p, "NewDaemonizer", dd)
             ELSE /\ d' = [d EXCEPT ![p] = dd]
                  /\ ctorErr' = [ctorErr EXCEPT ![p] = NoErr]
                  /\ pc' = [pc EXCEPT ![p] = "ready"]
                  /\ UNCHANGED <<via, rbuf, initErr>>
    /\ UNCHANGED <<argv, d2, option, proc, fds, closes, paramPipe, outputPipe, wbuf, perr, ret, lpc, lmsg, written>>

\* initDaemonProcess called on a Parent-role Daemonizer from inside the
\* package, not through NewDaemonizer.
InitDaemonProcessCall(p) ==
    /\ pc[p] = "ready"
    /\ ~d[p].daemon
    /\ initDaemonProcess(p, "direct", d[p])
    /\ UNCHANGED <<argv, osArgs, d2, option, proc, fds, closes, paramPipe, outputPipe, wbuf, perr, ret, lpc, lmsg, written>>

\* --------------------------------------------- readParamsFromParentProcess

\* The assignment of msg.Params to d.params left out.
storeParamsDropped(old, err, params) == old

\* d.params after a Decode that ended with err and msg.Params = params.
storeParams(old, err, params) == IF err.nil THEN params ELSE old

\* readParamsFromParentProcess returns: d.params is set on success, the
\* deferred Close runs, and initDaemonProcess goes on to its response.
ParamsRead(p, err, params) ==
    /\ d' = [d EXCEPT ![p] = [@ EXCEPT !.params = storeParams(@, err, params),
                                       !.paramReadPipe = "closed"]]
    /\ fds' = CloseFd(fds, p, "paramR")
    /\ closes' = CloseCall(closes, p, "paramR")
    /\ perr' = [perr EXCEPT ![p] = err]
    /\ pc' = [pc EXCEPT ![p] = "sendResponse"]

\* One read of the decoder from descriptor 3 and its decode of what it has.
ReadParams(p) ==
    /\ pc[p] = "readParams"
    /\ IF "paramR" \notin fds[p]
       THEN /\ ParamsRead(p, ErrBadFd, GoNil)
            /\ UNCHANGED <<paramPipe, rbuf>>
       ELSE IF paramPipe # <<>>
       THEN LET buf == rbuf[p] \o paramPipe
                r == DecodeRequest(buf)
            IN /\ paramPipe' = <<>>
               /\ rbuf' = [rbuf EXCEPT ![p] = buf]
               /\ IF r.st = "more"
                  THEN UNCHANGED <<d, fds, closes, perr, pc>>
                  ELSE ParamsRead(p, r.err, r.params)
       ELSE /\ Holders("paramW") = {}
            /\ ParamsRead(p, IF rbuf[p] = <<>> THEN ErrEOF ELSE ErrUnexpectedEOF, GoNil)
            /\ UNCHANGED <<paramPipe, rbuf>>
    /\ UNCHANGED <<argv, osArgs, d2, option, proc, outputPipe, wbuf, via, initErr, ctorErr, ret, lpc, lmsg, written>>

\* The read system call on descriptor 3 fails.
ReadParamsFail(p) ==
    /\ pc[p] = "readParams"
    /\ "paramR" \in fds[p]
    /\ ParamsRead(p, ErrReadFailed, GoNil)
    /\ UNCHANGED <<argv, osArgs, d2, option, proc, paramPipe, outputPipe, wbuf, rbuf, via, initErr,
                   ctorErr, ret, lpc, lmsg, written>>

\* --------------------------------------------- sendResponseToParentProcess

\* initDaemonProcess reporting success whatever its decode gave.
ResponseForSuccess(err) ==
    Response(<<"success">>, <<"daemon process started successfully">>)

\* The status and message initDaemonProcess reports for decode error err.
ResponseFor(err) ==
    IF err.nil THEN Response(<<"success">>, <<"daemon process started successfully">>)
    ELSE Response(<<"error">>, err.msg)

\* The error of the write of one record to descriptor 4.
WriteStatusError(p) ==
    IF "outputW" \notin fds[p] THEN ErrBadFd
    ELSE IF Holders("outputR") = {} THEN ErrBrokenPipe
    ELSE NoErr

\* initDaemonProcess returning only what its response returned.
initResultOfResponse(err, werr) == werr

\* What initDaemonProcess returns after a decode that ended with err and a
\* response whose write ended with werr.
initResult(err, werr) == IF ~err.nil THEN err ELSE werr

\* sendResponseToParentProcess and the return of initDaemonProcess.
SendResponse(p) ==
    /\ pc[p] = "sendResponse"
    /\ Len(outputPipe) < PipeCap
    /\ LET msg == ResponseFor(perr[p])
           werr == WriteStatusError(p)
       IN /\ IF werr.nil
             THEN /\ outputPipe' = Append(outputPipe, EncodeResponse(msg.status, msg.message))
                  /\ written' = [written EXCEPT ![p] = Append(@, msg)]
             ELSE UNCHANGED <<outputPipe, written>>
          /\ d' = [d EXCEPT ![p] = [@ EXCEPT !.outputWritePipe = "closed"]]
          /\ fds' = CloseFd(fds, p, "outputW")
          /\ closes' = CloseCall(closes, p, "outputW")
          /\ InitReturns(p, via[p], initResult(perr[p], werr))
    /\ UNCHANGED <<argv, osArgs, d2, option, proc, paramPipe, wbuf, rbuf, perr, via, ret, lpc, lmsg>>

\* ------------------------------------------------------- runDaemonProcess

\* The marker put at the end of the argument vector.
newCommandArgumentsAtEnd(args, argIdx) ==
    SubSeq(args, argIdx, Len(args)) \o <<DaemonProcessArgument>>

\* The argument vector of the child: the marker goes in after argument 0.
RECURSIVE newCommandArguments(_, _)
newCommandArguments(args, argIdx) ==
    IF argIdx > Len(args) THEN <<>>
    ELSE <<args[argIdx]>>
         \o (IF argIdx = 1 THEN <<DaemonProcessArgument>> ELSE <<>>)
         \o newCommandArguments(args, argIdx + 1)

\* attr.Files[3] and attr.Files[4]: the pipe ends the child inherits.
ChildFiles == {"paramR", "outputW"}

\* The os.ProcAttr with option.Stdout left out.
procAttrStdoutInherited(opt) ==
    [Files |-> <<IF opt.Stdin # "nil" THEN opt.Stdin ELSE "os.Stdin",
                 "os.Stdout",
                 IF opt.Stderr # "nil" THEN opt.Stderr ELSE "os.Stderr",
                 "paramR", "outputW">>,
     Dir |-> IF opt.Dir # "" THEN opt.Dir ELSE "",
     Env |-> IF opt.Env # "nil" THEN opt.Env ELSE "nil",
     Sys |-> "nil"]

\* The os.ProcAttr runDaemonProcess builds from its option: Files holds
\* slots 0..4 (here at 1..5); Sys is never set.
procAttr(opt) ==
    [Files |-> <<IF opt.Stdin # "nil" THEN opt.Stdin ELSE "os.Stdin",
                 IF opt.Stdout # "nil" THEN opt.Stdout ELSE "os.Stdout",
                 IF opt.Stderr # "nil" THEN opt.Stderr ELSE "os.Stderr",
                 "paramR", "outputW">>,
     Dir |-> IF opt.Dir # "" THEN opt.Dir ELSE "",
     Env |-> IF opt.Env # "nil" THEN opt.Env ELSE "nil",
     Sys |-> "nil"]

\* os.StartProcess(name, argv, attr): the new process gets attr.Files as
\* its descriptors 0..4; an empty Dir is the caller's working directory, a
\* nil Env the caller's environment, and without Sys (no Setsid, no
\* Setctty) the process stays in the caller's session, with its
\* controlling terminal.
StartProcess(attr) ==
    [files |-> attr.Files,
     dir |-> IF attr.Dir = "" THEN "os.Getwd" ELSE attr.Dir,
     env |-> IF attr.Env = "nil" THEN "os.Environ" ELSE attr.Env,
     session |-> IF attr.Sys = "nil" THEN "parent's session" ELSE "new session"]

\* runDaemonProcess closing, once the child is started, the parent's copies
\* of the ends it handed over.
HeldAfterClosingChildEnds(outcome) ==
    CASE outcome = "pipe1 fails" -> {}
      [] outcome = "pipe2 fails" -> {"paramR", "paramW"}
      [] outcome = "start fails" -> Ends
      [] OTHER -> Ends \ {"paramR", "outputW"}

\* The pipe ends open in the parent when runDaemonProcess returns: after
\* both pipes were created it closes none of them, on any path.
HeldAfter(outcome) ==
    CASE outcome = "pipe1 fails" -> {}
      [] outcome = "pipe2 fails" -> {"paramR", "paramW"}
      [] OTHER -> Ends

LaunchOutcomes == {"pipe1 fails", "pipe2 fails", "start fails", "started"}

\* runDaemonProcess returning nil whatever happened.
runErrorNil(outcome) == NoErr

\* The error runDaemonProcess returns.
runError(outcome) ==
    CASE outcome = "started" -> NoErr
      [] outcome = "start fails" -> ErrStartFailed
      [] OTHER -> ErrPipeFailed

\* runDaemonProcess for Daemonizer dd of process p, and Daemonize's return
\* when it fails.  The process it starts is "child": at most one process
\* is started.
runDaemonProcess(p, dd, opt, outcome) ==
    /\ outcome = "started" => pc["child"] = "absent"
    /\ proc' = IF outcome = "started" THEN StartProcess(procAttr(opt)) ELSE proc
    /\ closes' = closes
    /\ fds' = [fds EXCEPT ![p] = @ \cup HeldAfter(outcome),
                          !["child"] = IF outcome = "started" THEN ChildFiles ELSE @]
    /\ IF outcome = "started"
       THEN /\ d' = [d EXCEPT ![p] = [dd EXCEPT !.paramReadPipe = "open",
                                                !.paramWritePipe = "open",
                                                !.outputReadPipe = "open",
                                                !.outputWritePipe = "open",
                                                !.daemonProc = TRUE]]
            /\ argv' = [argv EXCEPT !["child"] = newCommandArguments(dd.commandArguments, 1)]
            /\ osArgs' = [osArgs EXCEPT !["child"] = newCommandArguments(dd.commandArguments, 1)]
            /\ pc' = [pc EXCEPT ![p] = "send", !["child"] = "start"]
            /\ ret' = ret
       ELSE /\ d' = [d EXCEPT ![p] = dd]
            /\ ret' = [ret EXCEPT ![p] = runError(outcome)]
            /\ pc' = [pc EXCEPT ![p] = "returned"]
            /\ UNCHANGED <<argv, osArgs>>

\* -------------------------------------------------------------- Daemonize

\* Daemonize without its guard.
daemonizeGuardMissing(dd) == NoErr

\* The guard of Daemonize: the error it returns at once.
daemonizeGuard(dd) == IF dd.daemon THEN ErrNotParentProcess ELSE NoErr

\* Daemonize(params, option) up to the return of runDaemonProcess.
Daemonize(p) ==
    /\ pc[p] = "ready"
    /\ \E params \in Configs, outcome \in LaunchOutcomes :
          IF ~daemonizeGuard(d[p]).nil
          THEN /\ ret' = [ret EXCEPT ![p] = daemonizeGuard(d[p])]
               /\ pc' = [pc EXCEPT ![p] = "returned"]
               /\ UNCHANGED <<argv, osArgs, d, fds, closes, proc>>
          ELSE runDaemonProcess(p, [d[p] EXCEPT !.params = params], option, outcome)
    /\ UNCHANGED <<d2, option, paramPipe, outputPipe, wbuf, rbuf, perr, via, initErr, ctorErr,
                   lpc, lmsg, written>>

\* sendParamsToDaemonProcess returns err: its deferred Close runs; on
\* success Daemonize starts the goroutine of readOutputFromDaemonProcess and
\* ranges over responseChan.
ParamsSent(p, err) ==
    /\ d' = [d EXCEPT ![p] = [@ EXCEPT !.paramWritePipe = "closed"]]
    /\ fds' = CloseFd(fds, p, "paramW")
    /\ closes' = CloseCall(closes, p, "paramW")
    /\ perr' = [perr EXCEPT ![p] = err]
    /\ wbuf' = <<>>
    /\ IF err.nil
       THEN /\ pc' = [pc EXCEPT ![p] = "receive"]
            /\ lpc' = "read"
       ELSE /\ pc' = [pc EXCEPT ![p] = "sendFailed"]
            /\ lpc' = lpc

\* sendParamsToDaemonProcess up to its Write: json.Marshal.
SendParams(p) ==
    /\ pc[p] = "send"
    /\ IF ~Encodable(d[p].params)
       THEN ParamsSent(p, ErrParamNotSerializable)
       ELSE /\ wbuf' = MarshalRequest(d[p].params)
            /\ pc' = [pc EXCEPT ![p] = "write"]
            /\ UNCHANGED <<d, fds, closes, perr, lpc>>
    /\ UNCHANGED <<argv, osArgs, d2, option, proc, paramPipe, outputPipe, rbuf, via, initErr, ctorErr,
                   ret, lmsg, written>>

Min(a, b) == IF a < b THEN a ELSE b

\* d.paramWritePipe.Write(paramBytes): the kernel takes what fits in the
\* pipe and the call goes on until all is written.
WriteParams(p) ==
    /\ pc[p] = "write"
    /\ IF Holders("paramR") = {}
       THEN /\ ParamsSent(p, ErrParamSendFailed)
            /\ UNCHANGED paramPipe
       ELSE /\ Len(paramPipe) < PipeCap
            /\ LET n == Min(PipeCap - Len(paramPipe), Len(wbuf)) IN
               /\ paramPipe' = paramPipe \o SubSeq(wbuf, 1, n)
               /\ IF n = Len(wbuf)
                  THEN ParamsSent(p, NoErr)
                  ELSE /\ wbuf' = SubSeq(wbuf, n + 1, Len(wbuf))
                       /\ UNCHANGED <<d, fds, closes, perr, pc, lpc>>
    /\ UNCHANGED <<argv, osArgs, d2, option, proc, outputPipe, rbuf, via, initErr, ctorErr, ret, lmsg, written>>

\* The write system call fails.
WriteParamsFail(p) ==
    /\ pc[p] = "write"
    /\ ParamsSent(p, ErrParamSendFailed)
    /\ UNCHANGED <<argv, osArgs, d2, option, proc, paramPipe, outputPipe, rbuf, via, initErr, ctorErr,
                   ret, lmsg, written>>

\* Daemonize closing d.paramWritePipe, not d.outputReadPipe, after a failed
\* send.
sendFailedClosesParamW == "paramW"

\* The pipe end Daemonize closes after sendParamsToDaemonProcess failed.
sendFailedCloses == "outputR"

\* Daemonize after sendParamsToDaemonProcess failed: it closes
\* d.outputReadPipe and returns the error.
SendFailed(p) ==
    /\ pc[p] = "sendFailed"
    /\ d' = [d EXCEPT ![p] = [@ EXCEPT ![Handle(sendFailedCloses)] = "closed"]]
    /\ fds' = CloseFd(fds, p, sendFailedCloses)
    /\ closes' = CloseCall(closes, p, sendFailedCloses)
    /\ ret' = [ret EXCEPT ![p] = perr[p]]
    /\ pc' = [pc EXCEPT ![p] = "returned"]
    /\ UNCHANGED <<argv, osArgs, d2, option, proc, paramPipe, outputPipe, wbuf, rbuf, perr, via, initErr,
                   ctorErr, lpc, lmsg, written>>

\* ------------------------------------------- readOutputFromDaemonProcess

\* The goroutine leaves its loop: close(responseChan) and the deferred
\* d.outputReadPipe.Close().
ListenerDone(p) ==
    /\ lpc' = "done"
    /\ d' = [d EXCEPT ![p] = [@ EXCEPT !.outputReadPipe = "closed"]]
    /\ fds' = CloseFd(fds, p, "outputR")
    /\ closes' = CloseCall(closes, p, "outputR")

\* One decoder.Decode(&msg) of the goroutine.
ListenerRead(p) ==
    /\ lpc = "read"
    /\ pc[p] \notin {"absent", "exited"}
    /\ "outputR" \in fds[p]
    /\ IF outputPipe # <<>>
       THEN LET r == DecodeResponse(Head(outputPipe)) IN
            /\ outputPipe' = Tail(outputPipe)
            /\ lmsg' = IF r.err.nil THEN r.msg ELSE Response(<<"error">>, r.err.msg)
            /\ lpc' = IF r.err.nil THEN "send" ELSE "sendLast"
            /\ UNCHANGED <<d, fds, closes>>
       ELSE /\ Holders("outputW") = {}
            /\ ListenerDone(p)
            /\ UNCHANGED <<outputPipe, lmsg>>
    /\ UNCHANGED <<argv, osArgs, pc, d2, option, proc, paramPipe, wbuf, rbuf, perr, via, initErr, ctorErr,
                   ret, written>>

\* The switch without its "error" case distinguished from "success".
daemonizeResultNoError(msg) ==
    CASE msg.status \in {<<"success">>, <<"error">>} -> [returns |-> TRUE, err |-> NoErr]
      [] OTHER -> [returns |-> FALSE, err |-> NoErr]

\* The switch of Daemonize's loop on a received message: whether Daemonize
\* returns, and what.
daemonizeResult(msg) ==
    CASE msg.status = <<"success">> -> [returns |-> TRUE, err |-> NoErr]
      [] msg.status = <<"error">> -> [returns |-> TRUE, err |-> NewError(msg.message)]
      [] OTHER -> [returns |-> FALSE, err |-> NoErr]

\* What Daemonize returns when responseChan is closed with no message.
daemonizeDefault == NoErr

\* One iteration of "for msg := range daemonProcessResponse": a message is
\* handed over on responseChan, or the channel is closed.
Receive(p) ==
    /\ pc[p] = "receive"
    /\ IF lpc \in {"send", "sendLast"}
       THEN LET r == daemonizeResult(lmsg) IN
            /\ IF lpc = "send"
               THEN /\ lpc' = "read"
                    /\ UNCHANGED <<d, fds, closes>>
               ELSE ListenerDone(p)
            /\ IF r.returns
               THEN /\ ret' = [ret EXCEPT ![p] = r.err]
                    /\ pc' = [pc EXCEPT ![p] = "returned"]
               ELSE UNCHANGED <<ret, pc>>
       ELSE /\ lpc = "done"
            /\ ret' = [ret EXCEPT ![p] = daemonizeDefault]
            /\ pc' = [pc EXCEPT ![p] = "returned"]
            /\ UNCHANGED <<lpc, d, fds, closes>>
    /\ UNCHANGED <<argv, osArgs, d2, option, proc, paramPipe, outputPipe, wbuf, rbuf, perr, via, initErr,
                   ctorErr, lmsg, written>>

\* ------------------------------------------------------------ environment

\* The child process ends (it crashes, is killed, or exits): the kernel
\* closes every descriptor it holds.
ProcessExit(p) ==
    /\ p = "child"
    /\ pc[p] \notin {"absent", "exited"}
    /\ pc' = [pc EXCEPT ![p] = "exited"]
    /\ fds' = [fds EXCEPT ![p] = {}]
    /\ closes' = closes
    /\ UNCHANGED <<argv, osArgs, d, d2, option, proc, paramPipe, outputPipe, wbuf, rbuf, perr, via,
                   initErr, ctorErr, ret, lpc, lmsg, written>>

\* The files of a runDaemonProcess that failed are referenced by nothing
\* once it has returned (the fields of the Daemonizer were not set): the
\* runtime closes them when it finalizes them, at some later time or never.
Finalize(p) ==
    /\ pc[p] = "returned"
    /\ ~d[p].daemonProc
    /\ fds[p] # {}
    /\ fds' = [fds EXCEPT ![p] = {}]
    /\ UNCHANGED <<argv, osArgs, pc, d, d2, paramPipe, outputPipe, wbuf, rbuf, perr, via,
                   initErr, ctorErr, ret, lpc, lmsg, written, closes, option, proc>>

\* A second NewDaemonizer in a process whose first one has returned.  The
\* first one, if it ran initDaemonProcess, has closed descriptors 3 and 4,
\* so a second initDaemonProcess fails on its first read.
NewDaemonizerAgain(p) ==
    /\ pc[p] \in {"ready", "returned"}
    /\ ~d2[p].made
    /\ LET r == readCommandArguments(osArgs[p])
           dd == [ZeroDaemonizer EXCEPT !.daemon = r.daemon,
                                        !.commandArguments = r.commandArguments]
       IN /\ osArgs' = [osArgs EXCEPT ![p] = r.osArgs]
          /\ d2' = [d2 EXCEPT ![p] =
                       [made |-> TRUE, daemon |-> r.daemon,
                        commandArguments |-> r.commandArguments,
                        err |-> IF NeedsInit(dd) THEN initResult(ErrBadFd, ErrBadFd) ELSE NoErr]]
    /\ UNCHANGED <<argv, option, proc, pc, d, fds, closes, paramPipe, outputPipe, wbuf, rbuf, perr, via, initErr,
                   ctorErr, ret, lpc, lmsg, written>>

\* ------------------------------------------------------------ accessors

IsDaemon(p) == d[p].daemon
GetParams(p) == d[p].params
GetCommandArguments(p) == d[p].commandArguments

\* ---------------------------------------------------------- specification

Next ==
    \E p \in Procs :
        \/ NewDaemonizer(p)
        \/ InitDaemonProcessCall(p)
        \/ ReadParams(p)
        \/ ReadParamsFail(p)
        \/ SendResponse(p)
        \/ Daemonize(p)
        \/ SendParams(p)
        \/ WriteParams(p)
        \/ WriteParamsFail(p)
        \/ SendFailed(p)
        \/ ListenerRead(p)
        \/ Receive(p)
        \/ ProcessExit(p)
        \/ NewDaemonizerAgain(p)
        \/ Finalize(p)

Spec == Init /\ [][Next]_vars

\* One argument vector, every combination of set and unset launch options.
LaunchInit == InitFrom({<<"prog">>}, Options)
LaunchSpec == LaunchInit /\ [][Next]_vars

\* The steps of the main goroutine of p, in program order; at most one of
\* them is enabled at a time.
MainStep(p) ==
    \/ NewDaemonizer(p)
    \/ ReadParams(p)
    \/ SendResponse(p)
    \/ SendParams(p)
    \/ WriteParams(p)
    \/ SendFailed(p)
    \/ Receive(p)

\* Each process and the goroutine take the steps they can take; a process
\* may still end, a system call may still fail, and the application decides
\* on its own calls.
Fairness ==
    /\ WF_vars(MainStep("parent"))
    /\ WF_vars(MainStep("child"))
    /\ WF_vars(ListenerRead("parent"))

FairSpec == Spec /\ Fairness

\* ================================================================= claims

Parent == "parent"
Child == "child"

\* readCommandArguments has run in p (a process is started with at least
\* one argument).
Detected(p) == d[p].daemon \/ d[p].commandArguments # <<>>

\* NewDaemonizer has returned a Daemonizer to the application of p.
Constructed(p) == pc[p] \in {"ready", "returned"}

\* The configuration the parent passed to Daemonize.
SentConfig == d[Parent].params

\* The numeric widening of the codec: every integer as a float64.
RECURSIVE Widen(_)
Widen(v) ==
    CASE v.k = "int" -> [v EXCEPT !.k = "float"]
      [] v.k \in {"list", "map"} -> [v EXCEPT !.c = [i \in 1..Len(v.c) |-> Widen(v.c[i])]]
      [] OTHER -> v

\* Every string of v, keys included, is valid UTF-8.
RECURSIVE ValidUTF8(_)
ValidUTF8(v) ==
    /\ \A i \in 1..Len(v.s) : v.s[i] # InvalidByte
    /\ \A i \in 1..Len(v.key) : v.key[i] # InvalidByte
    /\ \A i \in 1..Len(v.c) : ValidUTF8(v.c[i])

\* v with every invalid byte of its strings replaced by U+FFFD.
RECURSIVE Coerced(_)
Coerced(v) ==
    [v EXCEPT !.s = [i \in 1..Len(v.s) |-> IF v.s[i] = InvalidByte THEN ReplacementRune ELSE v.s[i]],
              !.key = [i \in 1..Len(v.key) |-> IF v.key[i] = InvalidByte THEN ReplacementRune ELSE v.key[i]],
              !.c = [i \in 1..Len(v.c) |-> Coerced(v.c[i])]]

\* C1 (as stated): whenever the daemon's construction has succeeded, its
\* GetParams() equals the configuration the parent passed to Daemonize up to
\* numeric widening, for every configuration the codec can encode; and the
\* daemon never holds any other payload.
C1_RoundTripOfEveryEncodable ==
    /\ Constructed(Child) => GetParams(Child) = Widen(SentConfig)
    /\ GetParams(Child) \in {GoNil, Widen(SentConfig)}

\* C1 (amended): for configurations built from nil, booleans, numbers,
\* strings, lists and string-keyed maps, whenever the daemon's construction
\* has succeeded, its GetParams() equals the configuration the parent passed
\* to Daemonize up to numeric widening and up to the coercion of strings to
\* valid UTF-8, hence up to widening alone when the strings of the
\* configuration are valid UTF-8; and the daemon never holds any other
\* payload.
C1_RoundTrip ==
    /\ Constructed(Child) => GetParams(Child) = Widen(Coerced(SentConfig))
    /\ GetParams(Child) \in {GoNil, Widen(Coerced(SentConfig))}
    /\ ValidUTF8(SentConfig) /\ Constructed(Child) => GetParams(Child) = Widen(SentConfig)

\* The README's configuration has arrived, its port widened to a float64.
C1_Witness ==
    /\ Constructed(Child)
    /\ SentConfig = CfgReadme
    /\ GetParams(Child) = GoMap(<<Entry(KeyHost, GoStr(<<"localhost">>)),
                                  Entry(KeyPort, GoFloat(8080))>>)

\* The daemon has written a status record with this status.
HasWritten(p, status) == \E i \in 1..Len(written[p]) : written[p][i].status = status

\* Daemonize has returned in p after it started to wait for the status.
ReturnedFromWait(p) == pc[p] = "returned" /\ lpc # "off"

\* C2: Daemonize returns nil only if the parent has received a record with
\* status "success", which the daemon wrote after it decoded its parameters
\* without error.
C2_NilOnlyOnSuccess ==
    (pc[Parent] = "returned" /\ ret[Parent].nil) =>
        /\ lmsg.status = <<"success">>
        /\ HasWritten(Child, <<"success">>)
        /\ perr[Child].nil
        /\ d[Child].paramReadPipe = "closed"

\* Daemonize has returned nil.
C2_Witness == pc[Parent] = "returned" /\ ret[Parent].nil /\ lpc = "read"

\* C3: once the launched child has ended without writing a status record
\* while the parent waits for it, the goroutine sees end-of-data, leaves its
\* loop, and Daemonize returns nil.
C3_NilWhenChildEndsSilently ==
    (pc[Parent] = "receive" /\ pc[Child] = "exited" /\ written[Child] = <<>>)
        ~> (lpc = "done" /\ pc[Parent] = "returned" /\ ret[Parent].nil)

\* C4: Daemonize does not return from its wait for the status unless the
\* daemon has written a status record: while there is none, it stays
\* blocked.
C4_BlockedWithoutStatus ==
    /\ ReturnedFromWait(Parent) => written[Child] # <<>>
    /\ (pc[Parent] = "receive" /\ written[Child] = <<>>) => lpc = "read"

\* The child has ended without a status record and the parent is waiting.
C4_Witness ==
    /\ pc[Parent] = "receive"
    /\ pc[Child] = "exited"
    /\ written[Child] = <<>>
    /\ lpc = "read"

\* What Daemonize has to return for the status record rec.
Reported(rec) == IF rec.status = <<"success">> THEN NoErr ELSE NewError(rec.message)

\* C5: once the send has succeeded (the parent waits for the status) and
\* the daemon has finished its initialization by writing its status record,
\* Daemonize eventually returns: nil for a Success record, the reported
\* error for an Error record.
C5_HandshakeCompletes ==
    (pc[Parent] = "receive" /\ written[Child] # <<>>)
        ~> (/\ pc[Parent] = "returned"
            /\ written[Child] # <<>>
            /\ ret[Parent] = Reported(written[Child][1]))

\* Daemonize has returned the error the daemon reported.
C5_Witness ==
    /\ ReturnedFromWait(Parent)
    /\ written[Child] # <<>>
    /\ written[Child][1].status = <<"error">>
    /\ ret[Parent] = NewError(written[Child][1].message)
    /\ pc[Child] = "failed"

\* The decode of readParamsFromParentProcess has failed in p.
DecodeFailed(p) == d[p].daemon /\ d[p].paramReadPipe = "closed" /\ ~perr[p].nil

\* The Error record initDaemonProcess writes for the decode error of p.
ErrorRecord(p) == Response(<<"error">>, perr[p].msg)

\* C6 (as stated): if the daemon's decode fails, Daemonize returns a
\* non-nil error whose message is the daemon's decode error, NewDaemonizer
\* returns that error in the daemon, and the status record has been written
\* by the time it returns.
C6_DecodeErrorReachesParent ==
    DecodeFailed(Child) =>
        /\ pc[Parent] = "returned" => (~ret[Parent].nil /\ ret[Parent].msg = perr[Child].msg)
        /\ pc[Child] = "failed" =>
              (ctorErr[Child] = perr[Child] /\ written[Child] = <<ErrorRecord(Child)>>)

\* C6 (amended): if the daemon's decode fails, NewDaemonizer returns that
\* error in the daemon after one attempt to write the Error record with its
\* message, which fails only when no process holds the status pipe's read
\* end any more; Daemonize returns a non-nil error, the daemon's message
\* when it had started to wait for the status, and otherwise its own
\* ErrParamNotSerializable or ErrParamSendFailed.
C6_DecodeError ==
    DecodeFailed(Child) =>
        /\ pc[Parent] = "returned" =>
              /\ ~ret[Parent].nil
              /\ IF lpc # "off"
                 THEN ret[Parent].msg = perr[Child].msg
                 ELSE ret[Parent] \in {ErrParamNotSerializable, ErrParamSendFailed}
        /\ pc[Child] = "failed" =>
              /\ ctorErr[Child] = perr[Child]
              /\ d[Child].outputWritePipe = "closed"
              /\ \/ written[Child] = <<ErrorRecord(Child)>>
                 \/ written[Child] = <<>> /\ Holders("outputR") = {}

\* The daemon's decode error has come back from Daemonize and from
\* NewDaemonizer.
C6_Witness ==
    /\ DecodeFailed(Child)
    /\ pc[Child] = "failed"
    /\ ctorErr[Child] = ErrReadFailed
    /\ ReturnedFromWait(Parent)
    /\ ret[Parent].msg = ErrReadFailed.msg

\* C7: Daemonize on a Daemonizer in Daemon role returns ErrNotParentProcess
\* and changes nothing: no pipe, no process, and the Daemonizer as it was.
C7_DaemonizeInDaemonRole ==
    [][\A p \in Procs :
          (Daemonize(p) /\ d[p].daemon) =>
              /\ pc'[p] = "returned"
              /\ ret'[p] = ErrNotParentProcess
              /\ UNCHANGED <<d, fds, paramPipe, outputPipe, argv, osArgs, lpc>>
              /\ \A q \in Procs \ {p} : pc'[q] = pc[q]]_vars

\* The launched daemon, holding its parameters, has called Daemonize.
C7_Witness ==
    /\ d[Child].daemon
    /\ pc[Child] = "returned"
    /\ ret[Child] = ErrNotParentProcess
    /\ GetParams(Child) # GoNil

\* C8: initDaemonProcess on a Daemonizer in Parent role returns
\* ErrNotDaemonProcess and wires and reads nothing; NewDaemonizer in Parent
\* role does not run it and does not fail.
C8_InitInParentRole ==
    /\ [][\A p \in Procs :
            InitDaemonProcessCall(p) =>
                /\ initErr'[p] = ErrNotDaemonProcess
                /\ UNCHANGED <<d, fds, rbuf, paramPipe, outputPipe, pc, via, written>>]_vars
    /\ [](\A p \in Procs :
            (Detected(p) /\ ~d[p].daemon) =>
                /\ ctorErr[p].nil
                /\ via[p] = "none"
                /\ rbuf[p] = <<>>
                /\ written[p] = <<>>
                /\ pc[p] \notin {"readParams", "sendResponse", "failed"})

\* initDaemonProcess has been called in Parent role.
C8_Witness ==
    /\ ~d[Parent].daemon
    /\ pc[Parent] = "ready"
    /\ initErr[Parent] = ErrNotDaemonProcess
    /\ ctorErr[Parent].nil

\* The marker occurs in args.
HasMarker(args) == \E i \in 1..Len(args) : args[i] = DaemonProcessArgument
\* args without the marker.
WithoutMarker(args) == SelectSeq(args, LAMBDA a : a # DaemonProcessArgument)

\* C9: after role detection the role is Daemon exactly when the marker
\* occurs in the vector the process was started with; the argument list of
\* the Daemonizer is that vector without its markers, in order, and never
\* holds the marker; in Daemon role os.Args is that cleaned list.
C9_RoleDetection ==
    \A p \in Procs :
        Detected(p) =>
            /\ IsDaemon(p) <=> HasMarker(argv[p])
            /\ GetCommandArguments(p) = WithoutMarker(argv[p])
            /\ ~HasMarker(GetCommandArguments(p))
            /\ ~HasMarker(argv[p]) => GetCommandArguments(p) = argv[p]
            /\ IsDaemon(p) => osArgs[p] = WithoutMarker(argv[p])
            /\ d2[p].made => ~HasMarker(d2[p].commandArguments)

\* A process started with two arguments besides the marker is a daemon.
C9_Witness ==
    /\ pc[Child] = "ready"
    /\ IsDaemon(Child)
    /\ argv[Child] = <<"prog", DaemonProcessArgument, "-v">>
    /\ GetCommandArguments(Child) = <<"prog", "-v">>

\* C10: a second role detection in the same process gives the role the
\* first one gave.
C10_DetectionIdempotent ==
    \A p \in Procs : d2[p].made => d2[p].daemon = d[p].daemon

\* initDaemonProcess has run to its return in p, a process in Daemon role.
InitDone(p) == d[p].daemon /\ pc[p] \in {"ready", "failed", "returned"}

\* p was started by runDaemonProcess, with both pipes in its descriptors.
LaunchedByDaemonize(p) == p = Child

\* The status that goes with the outcome of p's decode.
StatusOfDecode(p) == IF perr[p].nil THEN <<"success">> ELSE <<"error">>

\* C11 (as stated): on every path through daemon-side initialization the
\* daemon writes exactly one status record to the status pipe (never two,
\* never none), Success or Error by the outcome of its decode, and only
\* after its attempt to decode the parameters has finished.
C11_OneStatusRecord ==
    \A p \in Procs :
        /\ Len(written[p]) <= 1
        /\ written[p] # <<>> => d[p].paramReadPipe = "closed"
        /\ InitDone(p) =>
              /\ Len(written[p]) = 1
              /\ written[p][1].status = StatusOfDecode(p)

\* C11 (amended): on every path through daemon-side initialization the
\* daemon makes exactly one attempt to write a status record, Success or
\* Error by the outcome of its decode, and only after its attempt to decode
\* the parameters has finished; the record reaches the status pipe exactly
\* once unless that write fails, which happens only when no process holds
\* the pipe's read end any more or when the process was not started by
\* Daemonize.
C11_OneStatusAttempt ==
    \A p \in Procs :
        /\ Len(written[p]) <= 1
        /\ closes[p]["outputW"] <= 1
        /\ written[p] # <<>> =>
              /\ d[p].paramReadPipe = "closed"
              /\ written[p][1].status = StatusOfDecode(p)
        /\ InitDone(p) =>
              /\ closes[p]["outputW"] = 1
              /\ d[p].outputWritePipe = "closed"
              /\ \/ Len(written[p]) = 1
                 \/ /\ written[p] = <<>>
                    /\ Holders("outputR") = {} \/ ~LaunchedByDaemonize(p)

\* The daemon's one record is an Error record, and its construction failed.
C11_Witness ==
    /\ pc[Child] = "failed"
    /\ Len(written[Child]) = 1
    /\ written[Child][1].status = <<"error">>
    /\ closes[Child]["outputW"] = 1

\* runDaemonProcess has started the child process.
Launched == pc[Child] # "absent"

\* C12: for every combination of set and unset launch options, the child's
\* descriptors 0, 1 and 2 are the option's stdin, stdout and stderr when set
\* and the parent's own stream when not, each on its own; its directory and
\* environment are the option's when set and the parent's when not;
\* descriptor 3 is the parameter pipe's read end and descriptor 4 the status
\* pipe's write end, the two ends the daemon starts with, while the parent
\* holds the other two.
C12_ChildDescriptors ==
    Launched =>
        /\ Len(proc.files) = 5
        /\ proc.files[1] = IF option.Stdin # "nil" THEN option.Stdin ELSE "os.Stdin"
        /\ proc.files[2] = IF option.Stdout # "nil" THEN option.Stdout ELSE "os.Stdout"
        /\ proc.files[3] = IF option.Stderr # "nil" THEN option.Stderr ELSE "os.Stderr"
        /\ proc.files[4] = "paramR"
        /\ proc.files[5] = "outputW"
        /\ proc.dir = IF option.Dir # "" THEN option.Dir ELSE "os.Getwd"
        /\ proc.env = IF option.Env # "nil" THEN option.Env ELSE "os.Environ"
        /\ pc[Child] = "start" => fds[Child] = {proc.files[4], proc.files[5]}
        /\ pc[Child] = "readParams" =>
              d[Child].paramReadPipe = "open" /\ d[Child].outputWritePipe = "open"
        /\ pc[Parent] = "send" => {"paramW", "outputR"} \subseteq fds[Parent]

\* A child started with stdout and the directory set, the rest not.
C12_Witness ==
    /\ Launched
    /\ option = [Dir |-> "option.Dir", Stdin |-> "nil", Stdout |-> "option.Stdout",
                 Stderr |-> "nil", Env |-> "nil"]
    /\ proc.files = <<"os.Stdin", "option.Stdout", "os.Stderr", "paramR", "outputW">>
    /\ proc.dir = "option.Dir"
    /\ proc.env = "os.Environ"

\* The number of markers in args.
Markers(args) == Len(SelectSeq(args, LAMBDA a : a = DaemonProcessArgument))

\* C13: the child is started with the parent's argument vector and exactly
\* one marker, put right after the program name, and the argument list the
\* daemon has after role detection is the one the parent has.
C13_ArgumentRoundTrip ==
    Launched =>
        /\ argv[Child] = <<argv[Parent][1], DaemonProcessArgument>> \o Tail(argv[Parent])
        /\ Markers(argv[Child]) = 1
        /\ argv[Child][2] = DaemonProcessArgument
        /\ Detected(Child) =>
              /\ GetCommandArguments(Child) = GetCommandArguments(Parent)
              /\ GetCommandArguments(Child) = argv[Parent]

\* The daemon of a parent with an option after its program name.
C13_Witness ==
    /\ pc[Child] = "ready"
    /\ argv[Parent] = <<"prog", "-v">>
    /\ argv[Child] = <<"prog", DaemonProcessArgument, "-v">>
    /\ GetCommandArguments(Child) = <<"prog", "-v">>
    /\ GetCommandArguments(Parent) = <<"prog", "-v">>

\* C14: once the child is started it shares neither the session (and
\* controlling terminal) nor the environment of the parent.
C14_Detached ==
    Launched =>
        /\ proc.session # "parent's session"
        /\ proc.env # "os.Environ"

\* Daemonize has returned in the parent after a launch that succeeded.
ReturnedAfterLaunch == pc[Parent] = "returned" /\ d[Parent].daemonProc

\* C15: by the time Daemonize returns after a launch that succeeded, the
\* parent holds no open copy of the two pipe ends it handed to the child.
C15_ParentClosesChildEnds ==
    ReturnedAfterLaunch => fds[Parent] \cap ChildFiles = {}

\* C16: once Daemonize has returned because a status record arrived, the
\* goroutine of readOutputFromDaemonProcess eventually ends and the
\* parent's read end of the status pipe is closed.
C16_ListenerTerminates ==
    (ReturnedFromWait(Parent) /\ written[Child] # <<>>)
        ~> (lpc = "done" /\ "outputR" \notin fds[Parent])

\* C17: no process calls Close twice on one of its pipe handles, and a
\* process that is about to read or write a pipe handle (the daemon its
\* parameters and its status, the parent its parameters, the goroutine the
\* status) has not closed it.
C17_NoDoubleClose ==
    /\ \A p \in Procs, e \in Ends : closes[p][e] <= 1
    /\ \A p \in Procs :
          /\ pc[p] = "readParams" =>
                d[p].paramReadPipe = "open" /\ closes[p]["paramR"] = 0
          /\ pc[p] = "sendResponse" =>
                d[p].outputWritePipe = "open" /\ closes[p]["outputW"] = 0
          /\ pc[p] \in {"send", "write"} =>
                d[p].paramWritePipe = "open" /\ closes[p]["paramW"] = 0
    /\ lpc = "read" =>
          d[Parent].outputReadPipe = "open" /\ closes[Parent]["outputR"] = 0
    /\ pc[Parent] = "sendFailed" => closes[Parent]["outputR"] = 0

\* Both processes are through the path of a failed send, each handle they
\* used closed once.
C17_Witness ==
    /\ pc[Parent] = "returned"
    /\ ret[Parent] = ErrParamSendFailed
    /\ closes[Parent] = [e \in Ends |-> IF e \in {"paramW", "outputR"} THEN 1 ELSE 0]
    /\ pc[Child] = "failed"
    /\ closes[Child] = [e \in Ends |-> IF e \in {"paramR", "outputW"} THEN 1 ELSE 0]

\* Daemonize has returned in the parent and no child was started.
LaunchFailed == pc[Parent] = "returned" /\ ~d[Parent].daemon /\ ~Launched

\* C18: when a pipe cannot be created or the process cannot be started,
\* Daemonize returns a non-nil error (ErrRunDaemonFailed or the error of
\* the operating system) with no parameter byte written, no goroutine
\* started, and the pipe and process fields of the Daemonizer not set.
C18_LaunchFailure ==
    LaunchFailed =>
        /\ ~ret[Parent].nil
        /\ ret[Parent] \in {ErrRunDaemonFailed, ErrPipeFailed, ErrStartFailed}
        /\ paramPipe = <<>>
        /\ wbuf = <<>>
        /\ lpc = "off"
        /\ \A e \in Ends : d[Parent][Handle(e)] = "nil"
        /\ ~d[Parent].daemonProc
        /\ proc = NoProcess

\* The process could not be started.
C18_Witness ==
    /\ LaunchFailed
    /\ ret[Parent] = ErrStartFailed
    /\ SentConfig = CfgReadme
    /\ fds[Parent] = Ends

\* sendParamsToDaemonProcess has failed in the parent.
SendHasFailed ==
    /\ pc[Parent] \in {"sendFailed", "returned"}
    /\ perr[Parent] \in {ErrParamNotSerializable, ErrParamSendFailed}

\* C19: when Daemonize returns ErrParamNotSerializable or
\* ErrParamSendFailed a child has been started and the parent has closed
\* its parameter write end and its status read end; the daemon's
\* construction never succeeds: it fails with the error of its decode
\* (end-of-data, truncated data, or a read that failed), with no parameters.
C19_SendFailure ==
    /\ (pc[Parent] = "returned"
            /\ ret[Parent] \in {ErrParamNotSerializable, ErrParamSendFailed}) =>
          /\ SendHasFailed
          /\ ret[Parent] = perr[Parent]
          /\ d[Parent].paramWritePipe = "closed" /\ "paramW" \notin fds[Parent]
          /\ d[Parent].outputReadPipe = "closed" /\ "outputR" \notin fds[Parent]
          /\ lpc = "off"
    /\ SendHasFailed =>
          /\ Launched
          /\ d[Parent].daemonProc
          /\ pc[Child] \notin {"ready", "returned"}
          /\ GetParams(Child) = GoNil
          /\ pc[Child] = "failed" =>
                /\ ctorErr[Child] \in {ErrEOF, ErrUnexpectedEOF, ErrReadFailed}
                /\ ctorErr[Child] = ErrEOF => rbuf[Child] = <<>>
                /\ ctorErr[Child] = ErrUnexpectedEOF => rbuf[Child] # <<>>

\* The write broke off and the daemon's decode failed on truncated data.
C19_Witness ==
    /\ pc[Parent] = "returned"
    /\ ret[Parent] = ErrParamSendFailed
    /\ pc[Child] = "failed"
    /\ ctorErr[Child] = ErrUnexpectedEOF

\* C20: when runDaemonProcess fails, every pipe end it created is closed
\* by the time Daemonize returns the error.
C20_NoLeakOnFailedLaunch ==
    [][\A p \in Procs :
          (Daemonize(p) /\ ~d[p].daemon /\ pc'[p] = "returned") => fds'[p] = {}]_vars

====
